---- MODULE Spec2Model ----
(***************************************************************************)
(* The circle animation of js/script.js as a state machine.                *)
(*                                                                         *)
(* JavaScript runs one event-loop task at a time, so each action below is  *)
(* one whole task: initialize (DOMContentLoaded), one animation.onfinish   *)
(* callback, or one window resize handler.  The functions of the script    *)
(* are operators over a "world" record w holding the objects they mutate:  *)
(*   w.activeCircles  the Map container -> Set of circle elements          *)
(*   w.children       the circle elements attached to each container       *)
(*   w.animations     the animations started and not yet finished          *)
(*   w.console        what the running task has logged                     *)
(*   w.running        the circle element the running callback closes over  *)
(*   w.attempts       the arguments of the task's createRandomCircle calls  *)
(*   w.dims           clientWidth and clientHeight of each container        *)
(*   w.ui             the expand button, its elements and their classes     *)
(* The style of a circle (size, keyframes, duration) is read by nothing in  *)
(* the script; getRandomPosition, which computes the keyframes, is an       *)
(* operator of its own, and a spawn keeps of it the warnings it logs.       *)
(***************************************************************************)
EXTENDS Integers, Sequences, FiniteSets

\* ANIMATION_CONFIG.maxCirclesPerContainer
maxCirclesPerContainer == 5

\* the three entries of the containers array of initialize
NumContainers == 3

\* a resize is taken only while at most this many animations are pending, which
\* bounds the animations of discarded circles that are pending at a time
MaxPending == 4

\* Math.random() returns one of the values i / RandomSteps, i in 0..RandomSteps-1
RandomSteps == 5

Containers == 1 .. NumContainers

\* a querySelector result that is null
Null == 0

\* clientWidth or clientHeight of an object that has none
Undefined == -1

\* ANIMATION_CONFIG.offsetMultiplier
offsetMultiplier == 2

\* ANIMATION_CONFIG.circleSizeRange
circleSizeMin == 10
circleSizeMax == 100

\* the elements initializeExpandButton looks up, and the class it toggles on each
RequiredElements ==
  {"expandButton", "arrow", "container", "rectangleRight", "rectangleButton"}

ClassOf ==
  [e \in RequiredElements \ {"expandButton"} |->
     CASE e = "arrow" -> "rotate"
       [] e = "container" -> "move-left"
       [] e = "rectangleRight" -> "show"
       [] e = "rectangleButton" -> "move-right"]

ToggledClasses == {ClassOf[e] : e \in DOMAIN ClassOf}

VARIABLES
  phase,          \* "loading" before DOMContentLoaded, "ready" after initialize
  found,          \* the containers the page has (querySelector is not null)
  activeCircles,  \* the Map of initialize: its keys are the DOMAIN
  children,       \* children[c]: circle elements attached to container c
  animations,     \* pending animations: records [circle, container, registered]
  console,        \* the messages logged by the last task
  attempts,       \* the containers the last task called createRandomCircle with
  last,           \* the last task the event loop ran
  dims,           \* dims[c]: clientWidth and clientHeight of container c
  ui,             \* the expand button: elements on the page, classes set,
                  \* listener installed, expanded, clicks so far, classes at load
  probe           \* the last direct application of a pure function, if any

vars == <<phase, found, activeCircles, children, animations, console, attempts,
          last, dims, ui, probe>>

RandomValues == 0 .. (RandomSteps - 1)

\* a range function that forgets to add min
getRandomInRangeNoMin(min, max, r) == (r * (max - min + 1)) \div RandomSteps

\* a range function that scales by max - min and so never returns max
getRandomInRangeExclusive(min, max, r) ==
  ((r * (max - min)) \div RandomSteps) + min

\* Math.floor(Math.random() * (max - min + 1)) + min, with Math.random() = r / RandomSteps
getRandomInRange(min, max, r) == ((r * (max - min + 1)) \div RandomSteps) + min

----------------------------------------------------------------------------
\* getRandomPosition. A container is a record [present, clientWidth,
\* clientHeight]; rEdge and rCoord are its two draws of Math.random().

\* !x for a dimension: undefined and 0 are falsy
Falsy(x) == x = Undefined \/ x = 0

\* a guard that forgets the height
InvalidDimensionsWidthOnly(container) ==
  ~container.present \/ Falsy(container.clientWidth)

\* line 16: !container || !container.clientWidth || !container.clientHeight
InvalidDimensions(container) ==
  \/ ~container.present
  \/ Falsy(container.clientWidth)
  \/ Falsy(container.clientHeight)

Position(px, py, warned) == [x |-> px, y |-> py, warn |-> warned]

\* an edge position whose free coordinate ranges over the whole side
EdgePositionWholeSide(container, size, rEdge, rCoord) ==
  LET edge == (rEdge * 4) \div RandomSteps
      maxX == container.clientWidth
      maxY == container.clientHeight
      offset == size * offsetMultiplier
  IN  CASE edge = 0 -> Position(getRandomInRange(0, maxX, rCoord), -offset, FALSE)
        [] edge = 1 -> Position(container.clientWidth + offset,
                                getRandomInRange(0, maxY, rCoord), FALSE)
        [] edge = 2 -> Position(getRandomInRange(0, maxX, rCoord),
                                container.clientHeight + offset, FALSE)
        [] edge = 3 -> Position(-offset, getRandomInRange(0, maxY, rCoord), FALSE)
        [] OTHER -> Position(0, 0, FALSE)

\* lines 21-37: the edge, and the point outside it
EdgePosition(container, size, rEdge, rCoord) ==
  LET edge == (rEdge * 4) \div RandomSteps
      maxX == container.clientWidth - size
      maxY == container.clientHeight - size
      offset == size * offsetMultiplier
  IN  CASE edge = 0 -> Position(getRandomInRange(0, maxX, rCoord), -offset, FALSE)
        [] edge = 1 -> Position(container.clientWidth + offset,
                                getRandomInRange(0, maxY, rCoord), FALSE)
        [] edge = 2 -> Position(getRandomInRange(0, maxX, rCoord),
                                container.clientHeight + offset, FALSE)
        [] edge = 3 -> Position(-offset, getRandomInRange(0, maxY, rCoord), FALSE)
        [] OTHER -> Position(0, 0, FALSE)

getRandomPosition(container, size, rEdge, rCoord) ==
  IF InvalidDimensions(container)
    THEN Position(0, 0, TRUE)
    ELSE EdgePosition(container, size, rEdge, rCoord)

----------------------------------------------------------------------------
\* The Map and Set operations the script uses.

MapHas(w, c) == c \in DOMAIN w.activeCircles

\* a cap check that lets the set grow one past max
SizeGreater(w, c, max) ==
  IF MapHas(w, c) THEN Cardinality(w.activeCircles[c]) > max ELSE FALSE

\* activeCircles.get(c)?.size >= max : undefined >= max is false
SizeAtLeast(w, c, max) ==
  IF MapHas(w, c) THEN Cardinality(w.activeCircles[c]) >= max ELSE FALSE

\* activeCircles.set(c, s)
MapSet(w, c, s) ==
  [w EXCEPT !.activeCircles =
     [d \in (DOMAIN w.activeCircles) \cup {c} |->
        IF d = c THEN s ELSE w.activeCircles[d]]]

\* element.remove(): detaches the element from its parent, whichever it is
ElementRemove(w, k) ==
  [w EXCEPT !.children = [c \in Containers |-> w.children[c] \ {k}]]

\* the element objects that exist: a new element is none of them
LiveElements(w) ==
  UNION {w.activeCircles[c] : c \in DOMAIN w.activeCircles}
    \cup UNION {w.children[c] : c \in Containers}
    \cup {a.circle : a \in w.animations}
    \cup w.running

\* document.createElement('div'): an object distinct from every existing one
CreateElement(w) ==
  CHOOSE k \in 1 .. (Cardinality(LiveElements(w)) + 1) :
    /\ k \notin LiveElements(w)
    /\ \A j \in 1 .. (k - 1) : j \in LiveElements(w)

Log(w, msg) == [w EXCEPT !.console = Append(@, msg)]

\* the one element of a singleton set: {f(v) : v \in {e}} computes e once,
\* as a statement of the script computes its operands once
The(S) == CHOOSE x \in S : TRUE

----------------------------------------------------------------------------
\* createRandomCircle, step by step in the order of the source.

\* lines 71-75: track the circle in the activeCircles set
Register(w, c, k) ==
  LET w1 == IF MapHas(w, c) THEN w ELSE MapSet(w, c, {})
  IN  MapSet(w1, c, w1.activeCircles[c] \cup {k})

\* lines 77-95: circleElement.animate(...) and its onfinish callback; the
\* record notes whether the circle was in its container's set at that moment
Animate(w, c, k) ==
  [w EXCEPT !.animations = @ \cup
     {[circle |-> k, container |-> c,
       registered |-> MapHas(w, c) /\ k \in w.activeCircles[c]]}]

\* line 97: containerElement.appendChild(circleElement)
AppendChild(w, c, k) ==
  [ElementRemove(w, k) EXCEPT !.children[c] = @ \cup {k}]

\* container c as getRandomPosition reads it
ContainerOf(w, c) ==
  [present |-> c # Null, clientWidth |-> w.dims[c][1],
   clientHeight |-> w.dims[c][2]]

\* line 54 or line 55: what one call of getRandomPosition logs for container c
PositionLog(w, c) ==
  IF InvalidDimensions(ContainerOf(w, c))
    THEN Log(w, "warn: Invalid container dimensions")
    ELSE w

\* lines 54-55: startPosition and endPosition
Positions(w, c) ==
  The({PositionLog(v, c) : v \in {PositionLog(u, c) : u \in {w}}})

\* a spawn that starts the animation before it registers the circle
SpawnCircleAnimateFirst(w, c) ==
  The({AppendChild(Register(Animate(v, c, k), c, k), c, k) :
         v \in {Positions(w, c)}, k \in {CreateElement(w)}})

\* lines 52-97, after both guards
SpawnCircle(w, c) ==
  The({AppendChild(Animate(Register(v, c, k), c, k), c, k) :
         v \in {Positions(w, c)}, k \in {CreateElement(w)}})

\* a cap guard that reports the full container as an error
GuardedSpawnLogsAtCap(w, containerElement) ==
  IF containerElement = Null
    THEN Log(w, "error: Container element is null or undefined")
  ELSE IF SizeAtLeast(w, containerElement, maxCirclesPerContainer)
    THEN Log(w, "error: Container is full")
  ELSE SpawnCircle(w, containerElement)

\* the two guards of createRandomCircle (lines 42-50) and its body
GuardedSpawn(w, containerElement) ==
  IF containerElement = Null
    THEN Log(w, "error: Container element is null or undefined")
  ELSE IF SizeAtLeast(w, containerElement, maxCirclesPerContainer)
    THEN w
  ELSE SpawnCircle(w, containerElement)

createRandomCircle(w, containerElement) ==
  The({GuardedSpawn(v, containerElement) :
         v \in {[w EXCEPT !.attempts = Append(@, containerElement)]}})

\* a loop that starts at i = 1 and so makes one call too few
RECURSIVE SpawnTimesShort(_, _, _)
SpawnTimesShort(w, c, n) ==
  IF n <= 1 THEN w ELSE SpawnTimesShort(createRandomCircle(w, c), c, n - 1)

\* the for loop of createRandomCircles
RECURSIVE SpawnTimes(_, _, _)
SpawnTimes(w, c, n) ==
  IF n = 0 THEN w ELSE SpawnTimes(createRandomCircle(w, c), c, n - 1)

\* a seeder without its guard against a missing container
createRandomCirclesUnguarded(w, containerElement, r) ==
  SpawnTimes(w, containerElement,
             getRandomInRange(1, maxCirclesPerContainer, r))

createRandomCircles(w, containerElement, r) ==
  IF containerElement = Null
    THEN Log(w, "error: Container element not found")
  ELSE SpawnTimes(w, containerElement,
                  getRandomInRange(1, maxCirclesPerContainer, r))

\* a cleanup that deletes the circle from the set and leaves it on display
FinishCleanupKeepsDisplay(w, a) ==
  LET w1 == [w EXCEPT !.animations = @ \ {a}, !.running = {a.circle}]
  IN  IF MapHas(w1, a.container)
        THEN MapSet(w1, a.container, w1.activeCircles[a.container] \ {a.circle})
        ELSE w1

\* the circle's own removal from display and from the active set (lines 92-93)
FinishCleanup(w, a) ==
  LET w1 == [w EXCEPT !.animations = @ \ {a}, !.running = {a.circle}]
      w2 == ElementRemove(w1, a.circle)
  IN  IF MapHas(w2, a.container)
        THEN MapSet(w2, a.container, w2.activeCircles[a.container] \ {a.circle})
        ELSE w2

\* a callback that cleans up and spawns no replacement
OnFinishNoRespawn(w, a) == FinishCleanup(w, a)

\* a callback that spawns the replacement before it deletes its own circle
OnFinishSpawnsFirst(w, a) ==
  FinishCleanup(createRandomCircle(w, a.container), a)

\* a callback that empties the container's whole set instead of deleting its circle
OnFinishClears(w, a) ==
  LET w1 == FinishCleanup(w, a)
  IN  createRandomCircle(
        IF MapHas(w1, a.container) THEN MapSet(w1, a.container, {}) ELSE w1,
        a.container)

\* animation.onfinish of the circle of animation a
OnFinish(w, a) ==
  createRandomCircle(FinishCleanup(w, a), a.container)

\* a resize handler that clears the set and leaves the circles on display
ResizeContainerKeepsDisplay(w, c, r) ==
  IF c \in found /\ MapHas(w, c)
    THEN createRandomCircles(MapSet(w, c, {}), c, r[c])
    ELSE w

\* a resize handler that removes the circles and keeps the old set
ResizeContainerKeepsSet(w, c, r) ==
  IF c \in found /\ MapHas(w, c)
    THEN LET dropped == w.activeCircles[c]
             w1 == [w EXCEPT !.children =
                      [d \in Containers |-> w.children[d] \ dropped]]
         IN  createRandomCircles(w1, c, r[c])
    ELSE w

\* the body of the resize handler for one entry of containers
ResizeContainer(w, c, r) ==
  IF c \in found /\ MapHas(w, c)
    THEN LET dropped == w.activeCircles[c]
             w1 == [w EXCEPT !.children =
                      [d \in Containers |-> w.children[d] \ dropped]]
             w2 == MapSet(w1, c, {})
         IN  createRandomCircles(w2, c, r[c])
    ELSE w

\* containers.forEach of initialize, for one entry
SeedContainer(w, c, r) ==
  IF c \in found
    THEN createRandomCircles(w, c, r[c])
    ELSE Log(w, "warn: Container element not found")

\* containers.forEach(f): f on entries 1 .. n in order
RECURSIVE ForEach(_, _, _, _)
ForEach(w, n, r, resize) ==
  IF n = 0 THEN w
  ELSE LET w1 == ForEach(w, n - 1, r, resize)
       IN  IF resize THEN ResizeContainer(w1, n, r) ELSE SeedContainer(w1, n, r)

\* classList.toggle(cls) without its second argument
ClassFlip(classes, cls, force) ==
  IF cls \in classes THEN classes \ {cls} ELSE classes \cup {cls}

\* classList.toggle(cls, force)
ClassToggle(classes, cls, force) ==
  IF force THEN classes \cup {cls} ELSE classes \ {cls}

\* lines 145-149: arrow is looked up inside expandButton
ElementFound(w, e) ==
  IF e = "arrow"
    THEN "expandButton" \in w.ui.elements /\ "arrow" \in w.ui.elements
    ELSE e \in w.ui.elements

\* initializeExpandButton (lines 144-164) up to addEventListener
initializeExpandButton(w) ==
  IF \E e \in RequiredElements : ~ElementFound(w, e)
    THEN Log(w, "error: One or more required elements for expand button not found")
    ELSE [w EXCEPT !.ui.listener = TRUE, !.ui.expanded = FALSE]

\* the click listener of expandButton (lines 157-163)
OnClick(w) ==
  LET expanded == ~w.ui.expanded
      c1 == ClassToggle(w.ui.classes, ClassOf["arrow"], expanded)
      c2 == ClassToggle(c1, ClassOf["container"], expanded)
      c3 == ClassToggle(c2, ClassOf["rectangleRight"], expanded)
      c4 == ClassToggle(c3, ClassOf["rectangleButton"], expanded)
  IN  [w EXCEPT !.ui.expanded = expanded, !.ui.classes = c4]

\* the resize handler (lines 191-199), with the draws r of its seeders
ResizeHandler(w, r) == ForEach(w, NumContainers, r, TRUE)

\* the seeding of initialize (lines 176-182), with the draws r of its seeders
SeedAll(w, r) == ForEach(w, NumContainers, r, FALSE)

\* initialize (lines 167-200): the seeding, then the expand button
InitializeAll(w, r) == initializeExpandButton(SeedAll(w, r))

----------------------------------------------------------------------------
World ==
  [activeCircles |-> activeCircles, children |-> children,
   animations |-> animations, console |-> <<>>, running |-> {},
   attempts |-> <<>>, dims |-> dims, ui |-> ui]

Commit(w) ==
  /\ activeCircles' = w.activeCircles
  /\ children' = w.children
  /\ animations' = w.animations
  /\ console' = w.console
  /\ attempts' = w.attempts
  /\ ui' = w.ui

\* the animations whose circle a resize has discarded
Stale(w) ==
  {a \in w.animations :
     ~(MapHas(w, a.container) /\ a.circle \in w.activeCircles[a.container])}

\* what is recorded of a task: the handler (op), the container it was given
\* (arg), the count the seeder drew (n), whether the finished circle had been
\* discarded by a resize (stale), whether no animation was started (declined),
\* whether the task before was a resize too (again) and the sizes of the
\* active sets when the task began (before)
NoTask == [op |-> "none", arg |-> Null, n |-> 0, stale |-> FALSE,
           declined |-> FALSE, again |-> FALSE,
           before |-> [c \in Containers |-> 0]]

\* the pages modelled, each by the entries of containers that are not null: a
\* page with none of the three elements, and one with .spotifyplayer only
Pages == {{}, {2}}

SizeOf(w, c) == IF MapHas(w, c) THEN Cardinality(w.activeCircles[c]) ELSE 0

\* a container that is laid out
LaidOut == <<300, 200>>

\* the expand button of a page with the elements es, whose classes are cs
ExpandButton(es, cs) ==
  [elements |-> es, classes |-> cs, listener |-> FALSE, expanded |-> FALSE,
   clicks |-> 0, initial |-> cs]

NoProbe == [fn |-> "none"]

\* the script is loaded and DOMContentLoaded has not fired
Loading ==
  /\ phase = "loading"
  /\ activeCircles = [c \in {} |-> {}]
  /\ children = [c \in Containers |-> {}]
  /\ animations = {}
  /\ console = <<>>
  /\ attempts = <<>>
  /\ last = NoTask
  /\ probe = NoProbe

\* the pages of Pages: their containers are laid out, and they have none of
\* the elements of the expand button (.rectangle-right is the third container)
Init ==
  /\ Loading
  /\ found \in Pages
  /\ dims = [c \in Containers |-> LaidOut]
  /\ ui = ExpandButton({}, {})

\* DOMContentLoaded: initialize
Initialize ==
  /\ phase = "loading"
  /\ \E w \in {InitializeAll(World, r) : r \in [found -> RandomValues]} :
       Commit(w)
  /\ phase' = "ready"
  /\ last' = [NoTask EXCEPT !.op = "initialize"]
  /\ UNCHANGED <<found, dims, probe>>

\* the animation a finishes: its onfinish callback runs
Finish(a) ==
  /\ phase = "ready"
  /\ a \in animations
  /\ \E w \in {OnFinish(World, a)} :
       /\ Commit(w)
       /\ last' = [NoTask EXCEPT !.op = "finish", !.arg = a.container,
                     !.stale = a \in Stale(World),
                     !.declined = Cardinality(w.animations) < Cardinality(animations),
                     !.before = [c \in Containers |-> SizeOf(World, c)]]
  /\ UNCHANGED <<phase, found, dims, probe>>

\* the window is resized: the resize handler runs
Resize ==
  /\ phase = "ready"
  /\ Cardinality(animations) <= MaxPending
  /\ \E w \in {ResizeHandler(World, r) : r \in [found -> RandomValues]} :
       Commit(w)
  /\ last' = [NoTask EXCEPT !.op = "resize", !.again = last.op = "resize",
                !.before = [c \in Containers |-> SizeOf(World, c)]]
  /\ UNCHANGED <<phase, found, dims, probe>>

Next ==
  \/ Initialize
  \/ \E a \in animations : Finish(a)
  \/ Resize

Spec == Init /\ [][Next]_vars

----------------------------------------------------------------------------
\* The animation substrate finishes every animation it has started.

MaxElements == (NumContainers * maxCirclesPerContainer) + MaxPending + 1

AllAnimations ==
  [circle : 1 .. MaxElements, container : Containers, registered : BOOLEAN]

\* the completion callback of circle element k
FinishCircle(k) == \E a \in animations : a.circle = k /\ Finish(a)

\* fairness is stated for the circle elements 1 .. FairCircles, whose
\* identities are reused all along a run
FairCircles == 2

\* under fairness a resize is taken only while at most this many animations
\* are pending
MaxFairPending == 2

ResizeFew == Cardinality(animations) <= MaxFairPending /\ Resize

NextFair ==
  \/ Initialize
  \/ \E a \in animations : Finish(a)
  \/ ResizeFew

FairSpec ==
  /\ Init
  /\ [][NextFair]_vars
  /\ \A k \in 1 .. FairCircles : WF_vars(FinishCircle(k))

----------------------------------------------------------------------------
\* The two functions called directly, with a container or with null, on the
\* Map of initialize, between animation completions.

Args == found \cup {Null}

CallCreateRandomCircle(arg) ==
  /\ phase = "ready"
  /\ \E w \in {createRandomCircle(World, arg)} :
       /\ Commit(w)
       /\ last' = [NoTask EXCEPT !.op = "createRandomCircle", !.arg = arg,
                     !.declined = w.animations = animations,
                     !.before = [c \in Containers |-> SizeOf(World, c)]]
  /\ UNCHANGED <<phase, found, dims, probe>>

CallCreateRandomCircles(arg, r) ==
  /\ phase = "ready"
  /\ \E w \in {createRandomCircles(World, arg, r)} : Commit(w)
  /\ last' = [NoTask EXCEPT !.op = "createRandomCircles", !.arg = arg,
                !.n = getRandomInRange(1, maxCirclesPerContainer, r),
                !.before = [c \in Containers |-> SizeOf(World, c)]]
  /\ UNCHANGED <<phase, found, dims, probe>>

NextCalls ==
  \/ Initialize
  \/ \E a \in animations : Finish(a)
  \/ \E arg \in Args : CallCreateRandomCircle(arg)
  \/ \E arg \in Args, r \in RandomValues : CallCreateRandomCircles(arg, r)

SpecCalls == Init /\ [][NextCalls]_vars

----------------------------------------------------------------------------
\* getRandomInRange and getRandomPosition applied directly: to every range
\* of at most RandomSteps integers that starts within MaxBound of zero, and
\* to null and to every container whose dimensions are missing or at most
\* MaxDim, with every circle size up to MaxDim. Each behaviour is one call.

MaxBound == 2
MaxDim == 4

Dimensions == {Undefined} \cup (0 .. MaxDim)

NullContainer ==
  [present |-> FALSE, clientWidth |-> Undefined, clientHeight |-> Undefined]

ProbeContainers ==
  {NullContainer} \cup
  {[present |-> TRUE, clientWidth |-> cw, clientHeight |-> ch] :
     cw \in Dimensions, ch \in Dimensions}

ProbeRange(min, max, r) ==
  /\ probe = NoProbe
  /\ probe' = [fn |-> "getRandomInRange", min |-> min, max |-> max, r |-> r,
               result |-> getRandomInRange(min, max, r)]
  /\ UNCHANGED <<phase, found, activeCircles, children, animations, console,
                 attempts, last, dims, ui>>

ProbePosition(container, size, rEdge, rCoord) ==
  /\ probe = NoProbe
  /\ probe' = [fn |-> "getRandomPosition", container |-> container,
               size |-> size,
               result |-> getRandomPosition(container, size, rEdge, rCoord)]
  /\ UNCHANGED <<phase, found, activeCircles, children, animations, console,
                 attempts, last, dims, ui>>

NextPure ==
  \/ \E min \in (-MaxBound) .. MaxBound, r \in RandomValues :
       \E max \in min .. (min + RandomSteps - 1) : ProbeRange(min, max, r)
  \/ \E container \in ProbeContainers, size \in 1 .. MaxDim,
         rEdge \in RandomValues, rCoord \in RandomValues :
       ProbePosition(container, size, rEdge, rCoord)

SpecPure == Init /\ [][NextPure]_vars

----------------------------------------------------------------------------
\* A page whose .spotifyplayer has no width or no height (display: none, or
\* an object without the two properties), loaded and animated.

Unlaid ==
  {<<0, 0>>, <<0, LaidOut[2]>>, <<LaidOut[1], 0>>, <<Undefined, Undefined>>}

InitZero ==
  /\ Loading
  /\ found = {2}
  /\ \E d \in Unlaid : dims = [c \in Containers |-> IF c = 2 THEN d ELSE LaidOut]
  /\ ui = ExpandButton({}, {})

NextZero ==
  \/ Initialize
  \/ \E a \in animations : Finish(a)

SpecZero == InitZero /\ [][NextZero]_vars

----------------------------------------------------------------------------
\* The pages with any of the five elements of the expand button, each class
\* set or not on the element that carries it, and up to MaxClicks clicks on
\* the button. .rectangle-right is the third container of initialize too.

MaxClicks == 3

\* the user clicks on expandButton: its click listener runs, if it has one
Click ==
  /\ phase = "ready"
  /\ "expandButton" \in ui.elements
  /\ ui.clicks < MaxClicks
  /\ \E w \in {IF ui.listener THEN OnClick(World) ELSE World} :
       Commit([w EXCEPT !.ui.clicks = @ + 1])
  /\ last' = [NoTask EXCEPT !.op = "click"]
  /\ UNCHANGED <<phase, found, dims, probe>>

InitExpand ==
  /\ Loading
  /\ \E es \in SUBSET RequiredElements :
       /\ found = IF "rectangleRight" \in es THEN {3} ELSE {}
       /\ \E cs \in SUBSET {ClassOf[e] : e \in es \ {"expandButton"}} :
            ui = ExpandButton(es, cs)
  /\ dims = [c \in Containers |-> LaidOut]

NextExpand ==
  \/ Initialize
  \/ Click

SpecExpand == InitExpand /\ [][NextExpand]_vars

----------------------------------------------------------------------------
\* What the claims speak of.

Min(x, y) == IF x <= y THEN x ELSE y

\* the circles in container c's active set (none when the Map has no entry)
Tracked(c) == IF c \in DOMAIN activeCircles THEN activeCircles[c] ELSE {}

TrackedNext(c) == IF c \in DOMAIN activeCircles' THEN activeCircles'[c] ELSE {}

\* the sizes of the active sets are what they were when the last task began
SizesUnchanged == \A c \in Containers : Cardinality(Tracked(c)) = last.before[c]

----------------------------------------------------------------------------
\* C1: in every reachable state the active set of each container holds at most
\* maxCirclesPerContainer circles.
CapInvariant ==
  \A c \in DOMAIN activeCircles :
    Cardinality(activeCircles[c]) <= maxCirclesPerContainer

\* a full container after the completion of a circle a resize had discarded
CapReachedWitness ==
  /\ last.op = "finish"
  /\ last.stale
  /\ Cardinality(Tracked(last.arg)) = maxCirclesPerContainer

\* C2: an animation leaves the pending ones only in its own completion
\* callback, which removes its circle from display and from the active set and
\* calls createRandomCircle once, with the same container; the callback of a
\* pending animation can always run; and, the substrate being fair, every
\* started animation is eventually finished that way.
FinishRespawns ==
  /\ [][\A a \in animations :
          a \notin animations' =>
            /\ last'.op = "finish"
            /\ last'.arg = a.container
            /\ \A c \in Containers : a.circle \notin children'[c]
            /\ a.circle \notin TrackedNext(a.container)
            /\ attempts' = <<a.container>>]_vars
  /\ [](\A a \in animations : ENABLED Finish(a))
  /\ \A a \in {b \in AllAnimations : b.circle <= FairCircles} :
       (a \in animations) ~> (a \notin animations)

\* the circle of a tracked animation has finished and has been replaced
RespawnWitness ==
  /\ last.op = "finish"
  /\ ~last.stale
  /\ ~last.declined
  /\ attempts = <<last.arg>>
  /\ SizesUnchanged

\* C3: the completion callback of a circle that a resize has discarded changes
\* no active set and starts no animation.
StaleFinishIsNoOp ==
  (last.op = "finish" /\ last.stale) => (last.declined /\ SizesUnchanged)

\* C4: a resize leaves, for each container of the Map, none of the circles
\* tracked before it in the active set or on display, and an active set of 1 to
\* maxCirclesPerContainer circles, all created and animated by this handler.
ResizeReplaces ==
  [][last'.op = "resize" =>
       \A c \in DOMAIN activeCircles :
         /\ Tracked(c) \cap TrackedNext(c) = {}
         /\ \A d \in Containers : children'[d] \cap Tracked(c) = {}
         /\ TrackedNext(c) \cap LiveElements(World) = {}
         /\ TrackedNext(c) \subseteq
              {a.circle : a \in {b \in animations' \ animations : b.container = c}}
         /\ Cardinality(TrackedNext(c)) \in 1 .. maxCirclesPerContainer]_vars

\* a resize of a container that held several circles, whose animations are pending
ResizeWitness ==
  /\ last.op = "resize"
  /\ \E c \in found :
       /\ last.before[c] >= 3
       /\ Cardinality(Stale(World)) >= last.before[c]

\* what a resize leaves, per container: the size of the active set, whether the
\* circles on display are the tracked ones, and whether one of the circles old,
\* tracked before, is still tracked or on display
ResizeShape(old, w) ==
  [c \in found |->
     [size |-> SizeOf(w, c),
      attached |-> MapHas(w, c) /\ w.children[c] = w.activeCircles[c],
      kept |-> (old \cap LiveElements([w EXCEPT !.animations = {}])) # {}]]

TrackedIn(w) == UNION {w.activeCircles[c] : c \in DOMAIN w.activeCircles}

\* C5: from every state in which a resize is taken, what two resize handlers in
\* a row can leave (sizes of the active sets, display equal to the active set,
\* no circle tracked before still tracked or on display) is what one can leave.
ResizeIdempotent ==
  (phase = "ready" /\ Cardinality(animations) <= MaxPending) =>
    {ResizeShape(TrackedIn(World), ResizeHandler(World, r)) :
        r \in [found -> RandomValues]}
    = {ResizeShape(TrackedIn(World) \cup TrackedIn(ResizeHandler(World, r1)),
                   ResizeHandler(ResizeHandler(World, r1), r2)) :
        r1 \in [found -> RandomValues], r2 \in [found -> RandomValues]}

\* a resize that followed a resize
ResizeTwiceWitness ==
  /\ last.op = "resize"
  /\ last.again
  /\ \E c \in found : last.before[c] >= 1 /\ Tracked(c) # {}

\* C6: createRandomCircle on a container whose active set holds
\* maxCirclesPerContainer or more circles changes nothing and logs nothing.
CapDeclines ==
  /\ \A c \in found :
       Cardinality(Tracked(c)) >= maxCirclesPerContainer =>
         createRandomCircle(World, c) = [World EXCEPT !.attempts = <<c>>]
  /\ (/\ last.op = "finish"
      /\ last.stale
      /\ last.before[last.arg] >= maxCirclesPerContainer)
       => /\ last.declined
          /\ SizesUnchanged
          /\ console = <<>>
          /\ children[last.arg] = Tracked(last.arg)

\* a discarded circle finished while its container was full
CapDeclinesWitness ==
  /\ last.op = "finish"
  /\ last.stale
  /\ last.declined
  /\ last.before[last.arg] = maxCirclesPerContainer

\* C7: createRandomCircle and createRandomCircles called with null log one
\* error and change neither the Map, nor the display, nor the animations.
NullContainerNoOp ==
  [][(last'.op \in {"createRandomCircle", "createRandomCircles"}
        /\ last'.arg = Null) =>
       /\ activeCircles' = activeCircles
       /\ children' = children
       /\ animations' = animations
       /\ console' = <<IF last'.op = "createRandomCircle"
                         THEN "error: Container element is null or undefined"
                         ELSE "error: Container element not found">>]_vars

\* the seeder was called with null on a page that has circles
NullSeederWitness ==
  /\ last.op = "createRandomCircles"
  /\ last.arg = Null
  /\ animations # {}
  /\ Len(console) = 1

\* C8: every animation was started with its circle already in its container's
\* active set, and a circle on display whose animation is pending is tracked.
RegisteredBeforeAnimated ==
  \A a \in animations :
    /\ a.registered
    /\ a.circle \in children[a.container] => a.circle \in Tracked(a.container)

\* a completion callback has spawned a circle, which is animated and tracked
RegisteredWitness ==
  /\ last.op = "finish"
  /\ ~last.declined
  /\ \E a \in animations : a.registered /\ a.circle \in Tracked(a.container)
  /\ Cardinality(animations) >= 2

\* the calls of createRandomCircle the last task made with container c
AttemptsFor(c) == {i \in 1 .. Len(attempts) : attempts[i] = c}

\* C9: the seeder draws n in 1 .. maxCirclesPerContainer, calls
\* createRandomCircle n times with its container, and leaves the active set
\* with min(maxCirclesPerContainer, size before + n) circles; initialize seeds
\* each container found with as many circles as it made calls for it.
SeederCount ==
  /\ (last.op = "createRandomCircles" /\ last.arg # Null) =>
       /\ last.n \in 1 .. maxCirclesPerContainer
       /\ Len(attempts) = last.n
       /\ Cardinality(AttemptsFor(last.arg)) = last.n
       /\ Cardinality(Tracked(last.arg))
            = Min(maxCirclesPerContainer, last.before[last.arg] + last.n)
  /\ last.op = "initialize" =>
       \A c \in found :
         /\ Cardinality(AttemptsFor(c)) \in 1 .. maxCirclesPerContainer
         /\ Cardinality(Tracked(c)) = Cardinality(AttemptsFor(c))

\* the seeder was called on a container that had circles and reached the cap
\* with fewer circles than it made calls
SeederCappedWitness ==
  /\ last.op = "createRandomCircles"
  /\ last.arg # Null
  /\ last.before[last.arg] >= 2
  /\ last.before[last.arg] + last.n > maxCirclesPerContainer
  /\ Cardinality(Tracked(last.arg)) = maxCirclesPerContainer

\* C10: a circle leaves its container's active set only in a resize or in the
\* completion callback of its own animation.
RemovedOnlyByOwnFinishOrResize ==
  [][\A c \in DOMAIN activeCircles :
       \A k \in activeCircles[c] :
         k \notin TrackedNext(c) =>
           \/ last'.op = "resize"
           \/ /\ last'.op = "finish"
              /\ \E a \in animations \ animations' :
                   a.circle = k /\ a.container = c]_vars

\* a tracked circle finished and the other circles of its container stayed
OthersStayWitness ==
  /\ last.op = "finish"
  /\ ~last.stale
  /\ last.before[last.arg] >= 3
  /\ Cardinality(Tracked(last.arg)) = last.before[last.arg]

\* C11: getRandomInRange(min, max) lies in min .. max whatever Math.random()
\* returns, and every integer of min .. max is its result for some value of
\* Math.random().
RangeCovered ==
  probe.fn = "getRandomInRange" =>
    /\ probe.result \in probe.min .. probe.max
    /\ \A v \in probe.min .. probe.max :
         \E r \in RandomValues : getRandomInRange(probe.min, probe.max, r) = v

RangeMaxWitness ==
  /\ probe.fn = "getRandomInRange"
  /\ probe.min < 0
  /\ probe.max > 0
  /\ probe.result = probe.max

\* the four forms of a position outside a W x H container, for a circle of size S
OnEdge(p, W, H, S) ==
  LET offset == S * offsetMultiplier
  IN  \/ p.x \in 0 .. (W - S) /\ p.y = -offset
      \/ p.x = W + offset /\ p.y \in 0 .. (H - S)
      \/ p.x \in 0 .. (W - S) /\ p.y = H + offset
      \/ p.x = -offset /\ p.y \in 0 .. (H - S)

InsideRectangle(p, W, H) == p.x \in 0 .. W /\ p.y \in 0 .. H

\* the probed container has a positive width and height, and the circle fits
FitsContainer ==
  /\ probe.fn = "getRandomPosition"
  /\ probe.container.present
  /\ probe.container.clientWidth > 0
  /\ probe.container.clientHeight > 0
  /\ probe.size <= Min(probe.container.clientWidth, probe.container.clientHeight)

\* C12: for a container of positive width W and height H and a circle of
\* size S <= min(W, H), getRandomPosition returns, without a warning, a point
\* of the top, right, bottom or left form: one coordinate is S *
\* offsetMultiplier beyond an edge, the other within 0 .. W - S or
\* 0 .. H - S; the point is never inside the container's rectangle.
PositionOutside ==
  FitsContainer =>
    /\ ~probe.result.warn
    /\ OnEdge(probe.result, probe.container.clientWidth,
              probe.container.clientHeight, probe.size)
    /\ ~InsideRectangle(probe.result, probe.container.clientWidth,
                        probe.container.clientHeight)

RightEdgeWitness ==
  /\ FitsContainer
  /\ probe.size < probe.container.clientHeight
  /\ probe.result.x = probe.container.clientWidth + probe.size * offsetMultiplier
  /\ probe.result.y = probe.container.clientHeight - probe.size

\* the sizes createRandomCircle can draw for a circle
CircleSizes ==
  {getRandomInRange(circleSizeMin, circleSizeMax, r) : r \in RandomValues}

NoExtent(c) == Falsy(dims[c][1]) \/ Falsy(dims[c][2])

\* C13: for a container whose width or height is zero or missing,
\* getRandomPosition returns (0, 0) with a warning for every circle size and
\* every draw, and a spawn in it completes: once the page is loaded the
\* container has circles, each displayed and with an animation started after
\* it was registered; a completion callback makes one spawn attempt on the
\* container, which logs the two warnings of its two positions and starts an
\* animation, and leaves the active set as large as it was.
ZeroDimensionsSpawn ==
  \A c \in found :
    NoExtent(c) =>
      /\ \A size \in CircleSizes, rEdge \in RandomValues, rCoord \in RandomValues :
           getRandomPosition(ContainerOf(World, c), size, rEdge, rCoord)
             = Position(0, 0, TRUE)
      /\ phase = "ready" =>
           /\ Tracked(c) # {}
           /\ children[c] = Tracked(c)
           /\ \A k \in Tracked(c) :
                \E a \in animations :
                  a.circle = k /\ a.container = c /\ a.registered
      /\ (last.op = "finish" /\ last.arg = c) =>
           /\ attempts = <<c>>
           /\ ~last.declined
           /\ console = << "warn: Invalid container dimensions",
                           "warn: Invalid container dimensions" >>
           /\ Cardinality(Tracked(c)) = last.before[c]

ZeroHeightWitness ==
  /\ last.op = "finish"
  /\ dims[last.arg][1] > 0
  /\ dims[last.arg][2] = 0
  /\ Len(console) = 2
  /\ Cardinality(Tracked(last.arg)) >= 2

\* C14: a completion callback never shrinks an active set: the completion of
\* a tracked circle leaves every size as it was, and the completion of a
\* discarded circle leaves its container's size as it was or raises it by one.
FinishKeepsSize ==
  last.op = "finish" =>
    /\ \A c \in Containers \ {last.arg} :
         Cardinality(Tracked(c)) = last.before[c]
    /\ ~last.stale => (SizesUnchanged /\ ~last.declined)
    /\ last.stale =>
         Cardinality(Tracked(last.arg))
           = Min(maxCirclesPerContainer, last.before[last.arg] + 1)

\* a tracked circle of a full container finished and the container is full again
FullStaysFullWitness ==
  /\ last.op = "finish"
  /\ ~last.stale
  /\ last.before[last.arg] = maxCirclesPerContainer
  /\ Cardinality(Tracked(last.arg)) = maxCirclesPerContainer

\* C15: once initialize has run, every container found has an entry in the Map
\* and at least one circle in its active set.
NeverEmpty ==
  phase = "ready" =>
    \A c \in found : c \in DOMAIN activeCircles /\ activeCircles[c] # {}

\* a container holds one circle after a resize and completions
SingleCircleWitness ==
  /\ last.op = "finish"
  /\ \E c \in found : Cardinality(Tracked(c)) = 1 /\ Stale(World) # {}

\* C16: in every state the circles attached to a container are the circles of
\* its active set.
DisplayIsActiveSet ==
  \A c \in Containers : children[c] = Tracked(c)

\* a discarded circle finished while circles are on display
DisplayAfterStaleWitness ==
  /\ last.op = "finish"
  /\ last.stale
  /\ \E c \in found : Cardinality(children[c]) >= 2

\* C17 as stated, for every number of clicks, none included: with the
\* listener installed, expanded is true iff the number of clicks is odd, and
\* the four classes are all set when expanded and all unset when not.
ClassesFollowExpanded ==
  ui.listener =>
    /\ ui.expanded <=> ui.clicks % 2 = 1
    /\ ui.expanded => ToggledClasses \subseteq ui.classes
    /\ ~ui.expanded => ui.classes \cap ToggledClasses = {}

\* C17: the click listener is installed exactly when all five elements
\* exist. With it, after k >= 1 clicks expanded is true iff k is odd, the
\* four classes are all set when expanded and all unset when not, whatever
\* classes the page had; before the first click expanded is false. Without
\* it, no click changes a class.
ExpandToggles ==
  /\ phase = "ready" => (ui.listener <=> RequiredElements \subseteq ui.elements)
  /\ ui.listener =>
       /\ ui.expanded <=> ui.clicks % 2 = 1
       /\ ui.clicks >= 1 =>
            /\ ui.expanded => ToggledClasses \subseteq ui.classes
            /\ ~ui.expanded => ui.classes \cap ToggledClasses = {}
  /\ ~ui.listener => (ui.classes = ui.initial /\ ~ui.expanded)

CollapsedAgainWitness ==
  /\ ui.listener
  /\ ui.clicks = 2
  /\ ui.initial = {"show"}
  /\ ui.classes = {}

====
